---- MODULE Spec2Model ----
(***************************************************************************)
(* Model of start_all.py, the launcher of the Datanyx services: main()     *)
(* starts Ollama and the three services in order, tracks the spawned       *)
(* handles in running_processes and idles; cleanup() is the SIGINT/SIGTERM *)
(* handler.  A Python signal handler runs on the main thread between two   *)
(* bytecodes, on top of whatever main() or an earlier handler invocation   *)
(* was doing; the SystemExit that sys.exit(0) raises then propagates from  *)
(* the interrupted position and is caught by any enclosing bare "except:". *)
(* What the program reads from its environment (a port probe, a directory  *)
(* test, the runtime's health check, the success of a spawn) is an input   *)
(* of the step that reads it.  wait_for_service(), which main() never      *)
(* calls, is modelled under its own specification WaitSpec, and           *)
(* prepare_features() of the ML API (ml_api.py), a pure function of the    *)
(* request body, under FeatureSpec.                                        *)
(***************************************************************************)
EXTENDS Integers, Sequences, FiniteSets, TLC

\* ---------------------------------------------------------------- bounds
\* number of interrupt signals delivered in one run
MaxSignals == 1
\* number of further signals delivered while cleanup() is running (ReentrySpec)
MaxReentry == 1
\* largest timeout, in seconds, passed to wait_for_service
MaxTimeoutSec == 3
\* largest numeric reading in a request body passed to prepare_features
MaxReading == 1

\* ------------------------------------------------------------- constants
\* time.sleep(0.5) in wait_for_service is one tick; a second is two ticks
TicksPerSec == 2

\* SERVICES, in the order main() launches them
SERVICES == <<"ml_api", "chatbot_backend", "frontend">>

ServiceKeys == {SERVICES[k] : k \in 1..Len(SERVICES)}

VARIABLES
    pc,                 \* position of main()
    svc,                \* index in SERVICES of the service main() is launching
    no_ollama,          \* args.no_ollama
    no_frontend,        \* args.no_frontend
    running_processes,  \* the module-level list: service keys of the handles
    procState,          \* per service: "none", "running" or "exited" child
    call,               \* the latest start_service call: service key, what
                        \* is_port_in_use and cwd.exists() returned, result
    checks,             \* log of the results of check_ollama()
    ollamaSpawns,       \* number of "ollama serve" processes spawned
    ollamaTries,        \* number of Popen(["ollama", "serve"]) calls
    ollamaResult,       \* what start_ollama() returned, "none" before
    attempts,           \* log of the start_service calls, in call order
    hstack,             \* active cleanup() invocations, innermost last
    sigCount,           \* signals delivered so far
    termSent,           \* per service: SIGTERMs sent by proc.terminate()
    termOrder,          \* services in the order of their first
                        \* proc.terminate() call
    killCalled,         \* services on which proc.kill() was called
    cleanupDone,        \* an invocation of cleanup() has reached sys.exit(0)
    exitCode,           \* exit status, -1 while the program runs
    allOk,              \* all_ok of the status summary, "unset" before it
    summaryPorts,       \* the ports the status summary probed, in order
    settled,            \* services whose launch was followed by time.sleep(2)
    wpc,                \* position of wait_for_service
    wTimeout,           \* its timeout, in ticks
    wElapsed,           \* time.time() - start_time, in ticks
    wOpen,              \* the awaited port is open now
    wProbes,            \* log of its is_port_in_use calls: start tick, result
    wResult,            \* its return value, "none" until it returns
    ppc,                \* position of the prepare_features call
    data,               \* the dict passed to prepare_features
    features            \* the dict it returns, empty until it returns

mainVars == <<pc, svc, no_ollama, no_frontend, running_processes, procState,
              call, checks, ollamaSpawns, ollamaTries, ollamaResult, attempts,
              hstack, sigCount, termSent, termOrder, killCalled, cleanupDone,
              exitCode, allOk, summaryPorts, settled>>

waitVars == <<wpc, wTimeout, wElapsed, wOpen, wProbes, wResult>>

featVars == <<ppc, data, features>>

vars == <<mainVars, waitVars, featVars>>

argVars == <<no_ollama, no_frontend>>

launchVars == <<call, attempts>>

shutdownVars == <<hstack, sigCount, termSent, termOrder, killCalled,
                  cleanupDone>>

\* ------------------------------------------------------------ main()

\* wait_for_service is not running: the state of its variables under Spec
WaitOff ==
    /\ wpc = "off"
    /\ wTimeout = 0
    /\ wElapsed = 0
    /\ wOpen = FALSE
    /\ wProbes = <<>>
    /\ wResult = "none"

\* a dict without keys
EmptyDict == <<>>

\* prepare_features is not running: the state of its variables under Spec
FeatOff ==
    /\ ppc = "off"
    /\ data = EmptyDict
    /\ features = EmptyDict

\* no start_service call has been made yet
NoCall == [key |-> "none", port |-> "unprobed", cwd |-> "untested",
           result |-> "none"]

\* the interpreter has loaded the module and is about to run main()
MainInit ==
    /\ pc = "init"
    /\ svc = 0
    /\ no_ollama \in BOOLEAN
    /\ no_frontend \in BOOLEAN
    /\ running_processes = <<>>
    /\ procState = [s \in ServiceKeys |-> "none"]
    /\ call = NoCall
    /\ checks = <<>>
    /\ ollamaSpawns = 0
    /\ ollamaTries = 0
    /\ ollamaResult = "none"
    /\ attempts = <<>>
    /\ hstack = <<>>
    /\ sigCount = 0
    /\ termSent = [s \in ServiceKeys |-> 0]
    /\ termOrder = <<>>
    /\ killCalled = {}
    /\ cleanupDone = FALSE
    /\ exitCode = -1
    /\ allOk = "unset"
    /\ summaryPorts = <<>>
    /\ settled = {}

Init == MainInit /\ WaitOff /\ FeatOff

\* main() runs only while no handler invocation is on top of it
MainRuns == hstack = <<>>

\* argparse, signal.signal(SIGINT/SIGTERM, cleanup), print_banner()
InstallHandlers ==
    /\ MainRuns
    /\ pc = "init"
    /\ pc' = "ollama_gate"
    /\ UNCHANGED <<svc, running_processes, procState, checks, ollamaSpawns,
                   ollamaTries, ollamaResult, exitCode, allOk, summaryPorts,
                   settled>>
    /\ UNCHANGED <<argVars, launchVars, shutdownVars, waitVars, featVars>>

\* OllamaGate with the --no-ollama flag ignored
OllamaGateAlways ==
    /\ MainRuns
    /\ pc = "ollama_gate"
    /\ pc' = "check1"
    /\ UNCHANGED <<svc, running_processes, procState, checks, ollamaSpawns,
                   ollamaTries, ollamaResult, exitCode, allOk, summaryPorts,
                   settled>>
    /\ UNCHANGED <<argVars, launchVars, shutdownVars, waitVars, featVars>>

\* if not args.no_ollama: ... else: print("Skipping Ollama check")
OllamaGate ==
    /\ MainRuns
    /\ pc = "ollama_gate"
    /\ IF no_ollama
          THEN pc' = "launch" /\ svc' = 1
          ELSE pc' = "check1" /\ svc' = svc
    /\ UNCHANGED <<running_processes, procState, checks, ollamaSpawns,
                   ollamaTries, ollamaResult, exitCode, allOk, summaryPorts,
                   settled>>
    /\ UNCHANGED <<argVars, launchVars, shutdownVars, waitVars, featVars>>

\* AfterCheck with start_ollama() called whatever main()'s check returned
AfterCheckAlways(at, r) ==
    IF at = "check1" THEN "ollama_popen" ELSE "launch"

\* where main() continues when check_ollama() returns r: from main() itself
\* ("check1") or from start_ollama() ("check2"), whose result main() drops
AfterCheck(at, r) ==
    IF at = "check1" /\ ~r THEN "ollama_popen" ELSE "launch"

\* what start_ollama() has returned once check_ollama() returns r at position
\* "at": the re-check of line 97 decides it, the check of main() does not
StartOllamaResult(at, r) ==
    IF at = "check2" THEN (IF r THEN "True" ELSE "False") ELSE ollamaResult

\* check_ollama() returning normally: True iff the runtime answered 200,
\* False on any error of the request
CheckOllama ==
    /\ MainRuns
    /\ pc \in {"check1", "check2"}
    /\ \E r \in BOOLEAN :
         /\ checks' = Append(checks, r)
         /\ pc' = AfterCheck(pc, r)
         /\ ollamaResult' = StartOllamaResult(pc, r)
    /\ svc' = IF pc' = "launch" THEN 1 ELSE svc
    /\ UNCHANGED <<running_processes, procState, ollamaSpawns, ollamaTries,
                   exitCode, allOk, summaryPorts, settled>>
    /\ UNCHANGED <<argVars, launchVars, shutdownVars, waitVars, featVars>>

\* OllamaPopen with the runtime's handle appended to running_processes
OllamaPopenTracked ==
    /\ MainRuns
    /\ pc = "ollama_popen"
    /\ ollamaTries' = ollamaTries + 1
    /\ \/ /\ ollamaSpawns' = ollamaSpawns + 1
          /\ running_processes' = Append(running_processes, "ollama")
          /\ ollamaResult' = ollamaResult
          /\ pc' = "ollama_sleep"
          /\ svc' = svc
       \/ /\ ollamaSpawns' = ollamaSpawns
          /\ running_processes' = running_processes
          /\ ollamaResult' = "False"
          /\ pc' = "launch"
          /\ svc' = 1
    /\ UNCHANGED <<procState, checks, exitCode, allOk, summaryPorts, settled>>
    /\ UNCHANGED <<argVars, launchVars, shutdownVars, waitVars, featVars>>

\* start_ollama(): subprocess.Popen(["ollama", "serve"]) spawns, or raises
\* FileNotFoundError or another Exception, which start_ollama turns into False
OllamaPopen ==
    /\ MainRuns
    /\ pc = "ollama_popen"
    /\ ollamaTries' = ollamaTries + 1
    /\ \/ /\ ollamaSpawns' = ollamaSpawns + 1
          /\ ollamaResult' = ollamaResult
          /\ pc' = "ollama_sleep"
          /\ svc' = svc
       \/ /\ ollamaSpawns' = ollamaSpawns
          /\ ollamaResult' = "False"
          /\ pc' = "launch"
          /\ svc' = 1
    /\ UNCHANGED <<running_processes, procState, checks, exitCode, allOk,
                   summaryPorts, settled>>
    /\ UNCHANGED <<argVars, launchVars, shutdownVars, waitVars, featVars>>

\* start_ollama(): time.sleep(3)
OllamaSleep ==
    /\ MainRuns
    /\ pc = "ollama_sleep"
    /\ pc' = "check2"
    /\ UNCHANGED <<svc, running_processes, procState, checks, ollamaSpawns,
                   ollamaTries, ollamaResult, exitCode, allOk, summaryPorts,
                   settled>>
    /\ UNCHANGED <<argVars, launchVars, shutdownVars, waitVars, featVars>>

\* where main() continues after the launch of SERVICES[k] is over
AfterService(k) ==
    IF k = 1 THEN "launch" ELSE IF k = 2 THEN "frontend_gate" ELSE "settle"

\* NextSvc with the frontend launched before the chatbot backend
NextSvcSwapped(k) == IF k = 1 THEN 3 ELSE k

NextSvc(k) == IF k = 1 THEN 2 ELSE k

\* StartServiceProbe without the early return: an occupied port is logged
\* and the launch goes on
StartServiceProbeNoSkip ==
    /\ MainRuns
    /\ pc = "launch"
    /\ LET s == SERVICES[svc] IN
         /\ attempts' = Append(attempts, s)
         /\ \E open \in BOOLEAN :
              call' = [key |-> s, port |-> IF open THEN "open" ELSE "closed",
                       cwd |-> "untested", result |-> "none"]
    /\ pc' = "svc_dir"
    /\ UNCHANGED <<svc, running_processes, procState, checks, ollamaSpawns,
                   ollamaTries, ollamaResult, exitCode, allOk, summaryPorts,
                   settled>>
    /\ UNCHANGED <<argVars, shutdownVars, waitVars, featVars>>

\* start_service(): if is_port_in_use(port): return None
StartServiceProbe ==
    /\ MainRuns
    /\ pc = "launch"
    /\ LET s == SERVICES[svc] IN
         /\ attempts' = Append(attempts, s)
         /\ \E open \in BOOLEAN :
              IF open
                 THEN /\ call' = [key |-> s, port |-> "open", cwd |-> "untested",
                                  result |-> "None"]
                      /\ pc' = AfterService(svc)
                      /\ svc' = NextSvc(svc)
                 ELSE /\ call' = [key |-> s, port |-> "closed", cwd |-> "untested",
                                  result |-> "none"]
                      /\ pc' = "svc_dir"
                      /\ svc' = svc
    /\ UNCHANGED <<running_processes, procState, checks, ollamaSpawns,
                   ollamaTries, ollamaResult, exitCode, allOk, summaryPorts,
                   settled>>
    /\ UNCHANGED <<argVars, shutdownVars, waitVars, featVars>>

\* StartServiceDir without the early return: a missing directory is logged
\* and the launch goes on
StartServiceDirNoCheck ==
    /\ MainRuns
    /\ pc = "svc_dir"
    /\ \E exists \in BOOLEAN :
         call' = [call EXCEPT !.cwd = IF exists THEN "exists" ELSE "missing"]
    /\ pc' = "svc_popen"
    /\ UNCHANGED <<svc, running_processes, procState, checks, ollamaSpawns,
                   ollamaTries, ollamaResult, attempts, exitCode, allOk,
                   summaryPorts, settled>>
    /\ UNCHANGED <<argVars, shutdownVars, waitVars, featVars>>

\* StartServiceDir with the missing directory treated as fatal: sys.exit(1)
StartServiceDirFatal ==
    /\ MainRuns
    /\ pc = "svc_dir"
    /\ \E exists \in BOOLEAN :
         IF ~exists
            THEN /\ call' = [call EXCEPT !.cwd = "missing", !.result = "None"]
                 /\ pc' = "exited"
                 /\ exitCode' = 1
            ELSE /\ call' = [call EXCEPT !.cwd = "exists"]
                 /\ pc' = "svc_popen"
                 /\ exitCode' = exitCode
    /\ UNCHANGED <<svc, running_processes, procState, checks, ollamaSpawns,
                   ollamaTries, ollamaResult, attempts, allOk, summaryPorts,
                   settled>>
    /\ UNCHANGED <<argVars, shutdownVars, waitVars, featVars>>

\* start_service(): if not cwd.exists(): return None
StartServiceDir ==
    /\ MainRuns
    /\ pc = "svc_dir"
    /\ \E exists \in BOOLEAN :
         IF ~exists
            THEN /\ call' = [call EXCEPT !.cwd = "missing", !.result = "None"]
                 /\ pc' = AfterService(svc)
                 /\ svc' = NextSvc(svc)
            ELSE /\ call' = [call EXCEPT !.cwd = "exists"]
                 /\ pc' = "svc_popen"
                 /\ svc' = svc
    /\ UNCHANGED <<running_processes, procState, checks, ollamaSpawns,
                   ollamaTries, ollamaResult, attempts, exitCode, allOk,
                   summaryPorts, settled>>
    /\ UNCHANGED <<argVars, shutdownVars, waitVars, featVars>>

\* start_service(): subprocess.Popen(cmd, cwd=...) spawns the child and the
\* handle is returned, or it raises an Exception and None is returned
StartServicePopen ==
    /\ MainRuns
    /\ pc = "svc_popen"
    /\ LET s == SERVICES[svc] IN
         \/ /\ procState' = [procState EXCEPT ![s] = "running"]
            /\ call' = [call EXCEPT !.result = "process"]
            /\ pc' = "svc_spawned"
            /\ svc' = svc
         \/ /\ procState' = procState
            /\ call' = [call EXCEPT !.result = "None"]
            /\ pc' = AfterService(svc)
            /\ svc' = NextSvc(svc)
    /\ UNCHANGED <<running_processes, checks, ollamaSpawns, ollamaTries,
                   ollamaResult, attempts, exitCode, allOk, summaryPorts,
                   settled>>
    /\ UNCHANGED <<argVars, shutdownVars, waitVars, featVars>>

\* AppendProcess with the handle appended twice
AppendProcessTwice ==
    /\ MainRuns
    /\ pc = "svc_spawned"
    /\ running_processes' =
           Append(Append(running_processes, SERVICES[svc]), SERVICES[svc])
    /\ IF svc \in {1, 2}
          THEN pc' = "svc_sleep" /\ svc' = svc
          ELSE pc' = AfterService(svc) /\ svc' = NextSvc(svc)
    /\ UNCHANGED <<procState, checks, ollamaSpawns, ollamaTries, ollamaResult,
                   exitCode, allOk, summaryPorts, settled>>
    /\ UNCHANGED <<argVars, launchVars, shutdownVars, waitVars, featVars>>

\* AppendProcess with no time.sleep(2) after the append
AppendProcessNoSleep ==
    /\ MainRuns
    /\ pc = "svc_spawned"
    /\ running_processes' = Append(running_processes, SERVICES[svc])
    /\ pc' = AfterService(svc)
    /\ svc' = NextSvc(svc)
    /\ UNCHANGED <<procState, checks, ollamaSpawns, ollamaTries, ollamaResult,
                   exitCode, allOk, summaryPorts, settled>>
    /\ UNCHANGED <<argVars, launchVars, shutdownVars, waitVars, featVars>>

\* main(): if proc: running_processes.append(proc); the ML API and the
\* chatbot backend are followed by time.sleep(2), the frontend is not
AppendProcess ==
    /\ MainRuns
    /\ pc = "svc_spawned"
    /\ running_processes' = Append(running_processes, SERVICES[svc])
    /\ IF svc \in {1, 2}
          THEN pc' = "svc_sleep" /\ svc' = svc
          ELSE pc' = AfterService(svc) /\ svc' = NextSvc(svc)
    /\ UNCHANGED <<procState, checks, ollamaSpawns, ollamaTries, ollamaResult,
                   exitCode, allOk, summaryPorts, settled>>
    /\ UNCHANGED <<argVars, launchVars, shutdownVars, waitVars, featVars>>

\* main(): time.sleep(2) after a spawned ML API or chatbot backend
SettleSleep ==
    /\ MainRuns
    /\ pc = "svc_sleep"
    /\ settled' = settled \cup {SERVICES[svc]}
    /\ pc' = AfterService(svc)
    /\ svc' = NextSvc(svc)
    /\ UNCHANGED <<running_processes, procState, checks, ollamaSpawns,
                   ollamaTries, ollamaResult, exitCode, allOk, summaryPorts>>
    /\ UNCHANGED <<argVars, launchVars, shutdownVars, waitVars, featVars>>

\* FrontendGate with the --no-frontend flag ignored
FrontendGateAlways ==
    /\ MainRuns
    /\ pc = "frontend_gate"
    /\ pc' = "launch"
    /\ svc' = 3
    /\ UNCHANGED <<running_processes, procState, checks, ollamaSpawns,
                   ollamaTries, ollamaResult, exitCode, allOk, summaryPorts,
                   settled>>
    /\ UNCHANGED <<argVars, launchVars, shutdownVars, waitVars, featVars>>

\* main(): if not args.no_frontend: start_service("frontend", ...) else skip
FrontendGate ==
    /\ MainRuns
    /\ pc = "frontend_gate"
    /\ IF no_frontend
          THEN pc' = "settle" /\ svc' = svc
          ELSE pc' = "launch" /\ svc' = 3
    /\ UNCHANGED <<running_processes, procState, checks, ollamaSpawns,
                   ollamaTries, ollamaResult, exitCode, allOk, summaryPorts,
                   settled>>
    /\ UNCHANGED <<argVars, launchVars, shutdownVars, waitVars, featVars>>

\* main(): time.sleep(3) before the status summary
FinalSettle ==
    /\ MainRuns
    /\ pc = "settle"
    /\ pc' = "summary"
    /\ UNCHANGED <<svc, running_processes, procState, checks, ollamaSpawns,
                   ollamaTries, ollamaResult, exitCode, allOk, summaryPorts,
                   settled>>
    /\ UNCHANGED <<argVars, launchVars, shutdownVars, waitVars, featVars>>

\* config["port"] of each entry of SERVICES
Port == [ml_api |-> 3002, chatbot_backend |-> 3001, frontend |-> 5173]

\* the port of the Ollama runtime
OllamaPort == 11434

\* main(): services_to_check, the ports of the status summary
ServicesToCheck ==
    <<Port["ml_api"], Port["chatbot_backend"], OllamaPort>>
      \o (IF no_frontend THEN <<>> ELSE <<Port["frontend"]>>)

\* StatusSummary ending the program with status 1 when a port is closed
StatusSummaryFatal ==
    /\ MainRuns
    /\ pc = "summary"
    /\ summaryPorts' = ServicesToCheck
    /\ \E seen \in [1..Len(ServicesToCheck) -> BOOLEAN] :
         IF \A k \in 1..Len(ServicesToCheck) : seen[k]
            THEN allOk' = "True" /\ pc' = "idle" /\ exitCode' = exitCode
            ELSE allOk' = "False" /\ pc' = "exited" /\ exitCode' = 1
    /\ UNCHANGED <<svc, running_processes, procState, checks, ollamaSpawns,
                   ollamaTries, ollamaResult, settled>>
    /\ UNCHANGED <<argVars, launchVars, shutdownVars, waitVars, featVars>>

\* main(): the status summary probes every port of services_to_check and
\* sets all_ok; whatever it finds, main() goes on to the idle loop
StatusSummary ==
    /\ MainRuns
    /\ pc = "summary"
    /\ summaryPorts' = ServicesToCheck
    /\ \E seen \in [1..Len(ServicesToCheck) -> BOOLEAN] :
         allOk' = IF \A k \in 1..Len(ServicesToCheck) : seen[k]
                     THEN "True" ELSE "False"
    /\ pc' = "idle"
    /\ UNCHANGED <<svc, running_processes, procState, checks, ollamaSpawns,
                   ollamaTries, ollamaResult, exitCode, settled>>
    /\ UNCHANGED <<argVars, launchVars, shutdownVars, waitVars, featVars>>

\* main(): while True: time.sleep(1)
IdleLoop ==
    /\ MainRuns
    /\ pc \in {"idle", "idle_sleep"}
    /\ pc' = IF pc = "idle" THEN "idle_sleep" ELSE "idle"
    /\ UNCHANGED <<svc, running_processes, procState, checks, ollamaSpawns,
                   ollamaTries, ollamaResult, exitCode, allOk, summaryPorts,
                   settled>>
    /\ UNCHANGED <<argVars, launchVars, shutdownVars, waitVars, featVars>>

\* ------------------------------------------------------------ cleanup()

\* the innermost active invocation of cleanup()
Top == hstack[Len(hstack)]

SetTop(f) == [hstack EXCEPT ![Len(hstack)] = f]

\* CurProc walking running_processes from its last entry to its first
CurProcReversed == running_processes[Len(running_processes) + 1 - Top.i]

\* the entry of running_processes the innermost invocation is handling
CurProc == running_processes[Top.i]

InSeq(x, q) == \E k \in 1..Len(q) : q[k] = x

\* the interpreter calls cleanup(signum, frame) on top of what the main
\* thread is executing
EnterCleanup ==
    /\ sigCount' = sigCount + 1
    /\ hstack' = Append(hstack, [i |-> 1, hpc |-> "loop"])
    /\ UNCHANGED <<pc, svc, running_processes, procState, checks,
                   ollamaSpawns, ollamaTries, ollamaResult, exitCode, allOk,
                   summaryPorts, settled, termSent, termOrder, killCalled,
                   cleanupDone>>
    /\ UNCHANGED <<argVars, launchVars, waitVars, featVars>>

\* delivery of SIGINT or SIGTERM once the handlers are installed
Signal ==
    /\ pc \notin {"init", "exited"}
    /\ sigCount < MaxSignals
    /\ EnterCleanup

\* delivery of a further SIGINT or SIGTERM while cleanup() is running
ReentrantSignal ==
    /\ pc \notin {"init", "exited"}
    /\ hstack # <<>>
    /\ sigCount >= MaxSignals
    /\ sigCount < MaxSignals + MaxReentry
    /\ EnterCleanup

\* cleanup(): for proc in running_processes: the next entry, or the end
CleanupLoop ==
    /\ hstack # <<>>
    /\ Top.hpc = "loop"
    /\ hstack' = SetTop([i |-> Top.i,
                         hpc |-> IF Top.i <= Len(running_processes)
                                    THEN "term" ELSE "exit"])
    /\ UNCHANGED <<pc, svc, running_processes, procState, checks,
                   ollamaSpawns, ollamaTries, ollamaResult, exitCode, allOk,
                   summaryPorts, settled, sigCount, termSent, termOrder,
                   killCalled, cleanupDone>>
    /\ UNCHANGED <<argVars, launchVars, waitVars, featVars>>

\* cleanup(): proc.terminate() sends SIGTERM to a child that has not been
\* reaped and does nothing for a reaped one, or raises, which leads to the
\* "except:" branch
ProcTerminate ==
    /\ hstack # <<>>
    /\ Top.hpc = "term"
    /\ termOrder' = IF InSeq(CurProc, termOrder) THEN termOrder
                    ELSE Append(termOrder, CurProc)
    /\ \/ /\ termSent' = [termSent EXCEPT ![CurProc] =
                            IF procState[CurProc] = "running" THEN @ + 1 ELSE @]
          /\ hstack' = SetTop([i |-> Top.i, hpc |-> "wait"])
       \/ /\ termSent' = termSent
          /\ hstack' = SetTop([i |-> Top.i, hpc |-> "kill"])
    /\ UNCHANGED <<pc, svc, running_processes, procState, checks,
                   ollamaSpawns, ollamaTries, ollamaResult, exitCode, allOk,
                   summaryPorts, settled, sigCount, killCalled, cleanupDone>>
    /\ UNCHANGED <<argVars, launchVars, waitVars, featVars>>

\* ProcWait with the TimeoutExpired dropped instead of escalated to kill()
ProcWaitNoKill ==
    /\ hstack # <<>>
    /\ Top.hpc = "wait"
    /\ hstack' = SetTop([i |-> Top.i + 1, hpc |-> "loop"])
    /\ UNCHANGED <<pc, svc, running_processes, procState, checks,
                   ollamaSpawns, ollamaTries, ollamaResult, exitCode, allOk,
                   summaryPorts, settled, sigCount, termSent, termOrder,
                   killCalled, cleanupDone>>
    /\ UNCHANGED <<argVars, launchVars, waitVars, featVars>>

\* cleanup(): proc.wait(timeout=5) returns when the child has exited and
\* raises TimeoutExpired while it is still running after the grace period
ProcWait ==
    /\ hstack # <<>>
    /\ Top.hpc = "wait"
    /\ hstack' = SetTop(IF procState[CurProc] = "exited"
                           THEN [i |-> Top.i + 1, hpc |-> "loop"]
                           ELSE [i |-> Top.i, hpc |-> "kill"])
    /\ UNCHANGED <<pc, svc, running_processes, procState, checks,
                   ollamaSpawns, ollamaTries, ollamaResult, exitCode, allOk,
                   summaryPorts, settled, sigCount, termSent, termOrder,
                   killCalled, cleanupDone>>
    /\ UNCHANGED <<argVars, launchVars, waitVars, featVars>>

\* ProcKill with the killed entry removed from running_processes
ProcKillRemoves ==
    /\ hstack # <<>>
    /\ Top.hpc = "kill"
    /\ killCalled' = killCalled \cup {CurProc}
    /\ \/ procState' = [procState EXCEPT ![CurProc] = "exited"]
       \/ procState' = procState
    /\ running_processes' =
          SelectSeq(running_processes, LAMBDA x : x # CurProc)
    /\ hstack' = SetTop([i |-> Top.i, hpc |-> "loop"])
    /\ UNCHANGED <<pc, svc, checks, ollamaSpawns, ollamaTries, ollamaResult,
                   exitCode, allOk, summaryPorts, settled, sigCount, termSent,
                   termOrder, cleanupDone>>
    /\ UNCHANGED <<argVars, launchVars, waitVars, featVars>>

\* cleanup(): proc.kill() in the "except:" branch sends SIGKILL, or raises,
\* which the inner "except: pass" drops; the loop goes to the next entry
ProcKill ==
    /\ hstack # <<>>
    /\ Top.hpc = "kill"
    /\ killCalled' = killCalled \cup {CurProc}
    /\ \/ procState' = [procState EXCEPT ![CurProc] = "exited"]
       \/ procState' = procState
    /\ hstack' = SetTop([i |-> Top.i + 1, hpc |-> "loop"])
    /\ UNCHANGED <<pc, svc, running_processes, checks, ollamaSpawns,
                   ollamaTries, ollamaResult, exitCode, allOk, summaryPorts,
                   settled, sigCount, termSent, termOrder, cleanupDone>>
    /\ UNCHANGED <<argVars, launchVars, waitVars, featVars>>

\* SystemExit propagating out of a handler invocation into the invocations
\* below it: an invocation interrupted inside "try:" (terminate or wait)
\* catches it with the bare "except:" and goes on to proc.kill(); one
\* interrupted in proc.kill() drops it with "except: pass" and goes on with
\* the next entry; one interrupted outside the try is unwound in its turn.
\* toMain tells that the exception reached the code of main().
RECURSIVE Unwind(_)
Unwind(st) ==
    IF st = <<>> THEN [stack |-> <<>>, toMain |-> TRUE]
    ELSE LET n == Len(st)
             f == st[n]
         IN  IF f.hpc \in {"term", "wait"}
                THEN [stack |-> [st EXCEPT ![n] = [i |-> f.i, hpc |-> "kill"]],
                      toMain |-> FALSE]
             ELSE IF f.hpc = "kill"
                THEN [stack |-> [st EXCEPT ![n] = [i |-> f.i + 1, hpc |-> "loop"]],
                      toMain |-> FALSE]
             ELSE Unwind(SubSeq(st, 1, n - 1))

\* the positions of main() that are inside check_ollama()'s "try:", whose
\* bare "except:" catches SystemExit and returns False
InCheckOllama(p) == p \in {"check1", "check2"}

\* cleanup(): sys.exit(0) raises SystemExit(0) at the point the signal
\* interrupted; uncaught, it ends the program with status 0
SysExit ==
    /\ hstack # <<>>
    /\ Top.hpc = "exit"
    /\ cleanupDone' = TRUE
    /\ LET u == Unwind(SubSeq(hstack, 1, Len(hstack) - 1)) IN
         /\ hstack' = u.stack
         /\ IF ~u.toMain
               THEN UNCHANGED <<pc, svc, exitCode, checks, ollamaResult>>
               ELSE IF InCheckOllama(pc)
                       THEN /\ pc' = AfterCheck(pc, FALSE)
                            /\ svc' = IF pc' = "launch" THEN 1 ELSE svc
                            /\ checks' = Append(checks, FALSE)
                            /\ ollamaResult' = StartOllamaResult(pc, FALSE)
                            /\ exitCode' = exitCode
                       ELSE /\ pc' = "exited"
                            /\ svc' = svc
                            /\ checks' = checks
                            /\ ollamaResult' = ollamaResult
                            /\ exitCode' = 0
    /\ UNCHANGED <<running_processes, procState, ollamaSpawns, ollamaTries,
                   allOk, summaryPorts, settled, sigCount, termSent,
                   termOrder, killCalled>>
    /\ UNCHANGED <<argVars, launchVars, waitVars, featVars>>

\* a spawned child exits, on its own or after a SIGTERM
ChildExit ==
    /\ \E s \in ServiceKeys :
         /\ procState[s] = "running"
         /\ procState' = [procState EXCEPT ![s] = "exited"]
    /\ UNCHANGED <<pc, svc, running_processes, checks, ollamaSpawns,
                   ollamaTries, ollamaResult, exitCode, allOk, summaryPorts,
                   settled>>
    /\ UNCHANGED <<argVars, launchVars, shutdownVars, waitVars, featVars>>

\* a step of main()
MainStep ==
    \/ InstallHandlers
    \/ OllamaGate
    \/ CheckOllama
    \/ OllamaPopen
    \/ OllamaSleep
    \/ StartServiceProbe
    \/ StartServiceDir
    \/ StartServicePopen
    \/ AppendProcess
    \/ SettleSleep
    \/ FrontendGate
    \/ FinalSettle
    \/ StatusSummary
    \/ IdleLoop

\* a step of the innermost invocation of cleanup()
HandlerStep ==
    \/ CleanupLoop
    \/ ProcTerminate
    \/ ProcWait
    \/ ProcKill
    \/ SysExit

\* a step of the interpreter
ProgramStep == MainStep \/ HandlerStep

Next ==
    \/ MainStep
    \/ HandlerStep
    \/ Signal
    \/ ChildExit

Spec == Init /\ [][Next]_vars

\* the interpreter keeps executing while it has a step to take; nothing
\* obliges a signal to arrive or a child to exit
FairSpec == Spec /\ WF_vars(ProgramStep)

\* Spec with further signals arriving while cleanup() is running
ReentryNext ==
    \/ MainStep
    \/ HandlerStep
    \/ Signal
    \/ ReentrantSignal
    \/ ChildExit

ReentrySpec == Init /\ [][ReentryNext]_vars

TypeOK ==
    /\ pc \in {"init", "ollama_gate", "check1", "ollama_popen", "ollama_sleep",
               "check2", "launch", "svc_dir", "svc_popen", "svc_spawned",
               "svc_sleep", "frontend_gate", "settle", "summary", "idle",
               "idle_sleep", "exited"}
    /\ svc \in 0..3
    /\ procState \in [ServiceKeys -> {"none", "running", "exited"}]
    /\ sigCount \in 0..(MaxSignals + MaxReentry)
    /\ Len(hstack) <= MaxSignals + MaxReentry
    /\ exitCode \in {-1, 0}

\* ---------------------------------------------------- wait_for_service()

\* wait_for_service(port, timeout) has just been called: start_time is taken
WaitInit ==
    /\ MainInit
    /\ FeatOff
    /\ ~no_ollama
    /\ ~no_frontend
    /\ wpc = "test"
    /\ wTimeout \in {TicksPerSec * t : t \in 0..MaxTimeoutSec}
    /\ wElapsed = 0
    /\ wOpen \in BOOLEAN
    /\ wProbes = <<>>
    /\ wResult = "none"

\* WaitTest with the deadline compared by <= instead of <
WaitTestInclusive ==
    /\ wpc = "test"
    /\ IF wElapsed <= wTimeout
          THEN wpc' = "probe" /\ wResult' = wResult
          ELSE wpc' = "done" /\ wResult' = "False"
    /\ UNCHANGED <<wTimeout, wElapsed, wOpen, wProbes>>
    /\ UNCHANGED <<mainVars, featVars>>

\* while time.time() - start_time < timeout: ... return False
WaitTest ==
    /\ wpc = "test"
    /\ IF wElapsed < wTimeout
          THEN wpc' = "probe" /\ wResult' = wResult
          ELSE wpc' = "done" /\ wResult' = "False"
    /\ UNCHANGED <<wTimeout, wElapsed, wOpen, wProbes>>
    /\ UNCHANGED <<mainVars, featVars>>

\* if is_port_in_use(port): return True; the connection attempt takes no
\* time or up to one tick
WaitProbe ==
    /\ wpc = "probe"
    /\ wProbes' = Append(wProbes, [at |-> wElapsed, open |-> wOpen])
    /\ \E d \in 0..1 : wElapsed' = wElapsed + d
    /\ IF wOpen
          THEN wpc' = "done" /\ wResult' = "True"
          ELSE wpc' = "sleep" /\ wResult' = wResult
    /\ UNCHANGED <<wTimeout, wOpen>>
    /\ UNCHANGED <<mainVars, featVars>>

\* time.sleep(0.5)
WaitSleep ==
    /\ wpc = "sleep"
    /\ wElapsed' = wElapsed + 1
    /\ wpc' = "test"
    /\ UNCHANGED <<wTimeout, wOpen, wProbes, wResult>>
    /\ UNCHANGED <<mainVars, featVars>>

\* the service binds the port, or stops listening on it, during the wait
PortChange ==
    /\ wpc \in {"test", "probe", "sleep"}
    /\ wOpen' = ~wOpen
    /\ UNCHANGED <<wpc, wTimeout, wElapsed, wProbes, wResult>>
    /\ UNCHANGED <<mainVars, featVars>>

\* a step of wait_for_service
WaitStep ==
    \/ WaitTest
    \/ WaitProbe
    \/ WaitSleep

WaitNext ==
    \/ WaitStep
    \/ PortChange

\* the interpreter keeps executing wait_for_service until it returns
WaitSpec == WaitInit /\ [][WaitNext]_vars /\ WF_vars(WaitStep)

\* ------------------------------------------- prepare_features() (ml_api.py)

\* the feature columns, in the order used during training
FEATURES == <<"humidity_pct", "CO2_ppm", "substrate_moisture_pct",
              "light_lux", "water_quality_index", "temp_C",
              "mushroom_variety_Button", "mushroom_variety_Lions Mane",
              "mushroom_variety_Oyster", "mushroom_variety_Reishi",
              "mushroom_variety_Shiitake">>

MUSHROOM_VARIETIES == <<"Button", "Lions Mane", "Oyster", "Reishi", "Shiitake">>

\* the numeric keys prepare_features reads from the request body
NumericKeys == {"humidity_pct", "co2_ppm", "substrate_moisture", "light_lux",
                "water_quality_index", "temperature_c"}

\* values of "species" in a request body: the five varieties, an unknown
\* one, one that differs in case, and the empty string
SpeciesValues == {"Button", "Lions Mane", "Oyster", "Reishi", "Shiitake",
                  "Enoki", "oyster", ""}

\* the request bodies: any subset of the numeric keys, with or without
\* "species"
Bodies ==
    LET Numeric == UNION {[D -> 0..MaxReading] : D \in SUBSET NumericKeys}
    IN  Numeric \cup {n @@ ("species" :> s) : n \in Numeric, s \in SpeciesValues}

\* d.get(k, default)
Get(d, k, default) == IF k \in DOMAIN d THEN d[k] ELSE default

\* d[k] = v
DictSet(d, k, v) == [x \in DOMAIN d \cup {k} |-> IF x = k THEN v ELSE d[x]]

\* for variety in MUSHROOM_VARIETIES:
\*     features[f"mushroom_variety_{variety}"] = 1 if species == variety else 0
\* after its first n iterations
RECURSIVE OneHot(_, _, _)
OneHot(f, species, n) ==
    IF n = 0 THEN f
    ELSE DictSet(OneHot(f, species, n - 1),
                 "mushroom_variety_" \o MUSHROOM_VARIETIES[n],
                 IF species = MUSHROOM_VARIETIES[n] THEN 1 ELSE 0)

\* the six numeric features, each read from its key of the request body or
\* set to its default
NumericFeatures(d) ==
    [humidity_pct |-> Get(d, "humidity_pct", 85),
     CO2_ppm |-> Get(d, "co2_ppm", 800),
     substrate_moisture_pct |-> Get(d, "substrate_moisture", 65),
     light_lux |-> Get(d, "light_lux", 200),
     water_quality_index |-> Get(d, "water_quality_index", 80),
     temp_C |-> Get(d, "temperature_c", 22)]

\* prepare_features with no default for a missing species
prepare_features_no_default(d) ==
    OneHot(NumericFeatures(d), Get(d, "species", ""), Len(MUSHROOM_VARIETIES))

\* prepare_features(data)
prepare_features(d) ==
    OneHot(NumericFeatures(d), Get(d, "species", "Oyster"),
           Len(MUSHROOM_VARIETIES))

\* prepare_features is about to be called on a request body
FeatInit ==
    /\ MainInit
    /\ ~no_ollama
    /\ ~no_frontend
    /\ WaitOff
    /\ ppc = "call"
    /\ data \in Bodies
    /\ features = EmptyDict

\* the call of prepare_features(data) and its return
PrepareFeatures ==
    /\ ppc = "call"
    /\ features' = prepare_features(data)
    /\ ppc' = "returned"
    /\ UNCHANGED data
    /\ UNCHANGED <<mainVars, waitVars>>

FeatNext == PrepareFeatures

FeatureSpec == FeatInit /\ [][FeatNext]_vars

\* ---------------------------------------------------------------- claims

Count(x, q) == Cardinality({k \in 1..Len(q) : q[k] = x})

IsPrefix(p, q) == Len(p) <= Len(q) /\ \A k \in 1..Len(p) : p[k] = q[k]

\* the children this run spawned that are alive and were never sent SIGTERM
Untouched == {s \in ServiceKeys : procState[s] = "running" /\ termSent[s] = 0}

\* C1: once the program has exited through cleanup(), every service process
\* that start_service spawned has exited or has been sent a termination
\* request (and so exits, children honouring SIGTERM), also when the signal
\* arrived between the spawn and the append to running_processes.
C1_NoServiceSurvivesShutdown == pc = "exited" => Untouched = {}

\* C2: a signal delivered after the handlers are installed leads to the exit
\* of the program with status 0, wherever main() was when it arrived.
C2_InterruptLeadsToExit == (sigCount > 0) ~> (pc = "exited" /\ exitCode = 0)

\* C3: a second interrupt during cleanup() starts no second teardown: no
\* tracked process is sent more than one termination request.
C3_AtMostOneTermination == \A s \in ServiceKeys : termSent[s] <= 1

\* C4: a start_service call that finds the port open returns None and spawns
\* nothing, and no service without a spawned process is in running_processes.
C4_OccupiedPortSkips ==
    /\ call.port = "open" =>
         /\ call.result = "None"
         /\ procState[call.key] = "none"
         /\ ~InSeq(call.key, running_processes)
    /\ \A s \in ServiceKeys : InSeq(s, running_processes) => procState[s] # "none"

C4_Witness ==
    /\ call.port = "open"
    /\ call.key = "chatbot_backend"
    /\ pc = "frontend_gate"
    /\ running_processes = <<"ml_api">>

\* C5: a start_service call that finds the port closed and the working
\* directory missing returns None, spawns nothing and raises nothing: the
\* uninterrupted program is still running.
C5_MissingDirectoryFails ==
    (call.port = "closed" /\ call.cwd = "missing") =>
         /\ call.result = "None"
         /\ procState[call.key] = "none"
         /\ ~InSeq(call.key, running_processes)
         /\ (sigCount = 0 => exitCode = -1 /\ pc # "exited")

C5_Witness ==
    /\ call.port = "closed"
    /\ call.cwd = "missing"
    /\ call.key = "ml_api"
    /\ pc = "launch"
    /\ svc = 2

\* the services main() launches under the given flags
Wanted == IF no_frontend THEN {"ml_api", "chatbot_backend"} ELSE ServiceKeys

\* C6: in an uninterrupted run, whatever the outcome of the earlier launches,
\* the run reaches the status summary, and by then every non-excluded service
\* has had exactly one start_service call and an excluded one none.
C6_EveryServiceAttempted ==
    /\ [](sigCount = 0 /\ pc \in {"summary", "idle", "idle_sleep"} =>
            \A s \in ServiceKeys :
                Count(s, attempts) = IF s \in Wanted THEN 1 ELSE 0)
    /\ <>(sigCount > 0 \/ pc = "summary")

C6_Witness ==
    /\ sigCount = 0
    /\ pc = "summary"
    /\ procState["ml_api"] = "none"
    /\ procState["chatbot_backend"] = "none"
    /\ procState["frontend"] = "running"

\* C7: the first proc.terminate() calls are made in the order of
\* running_processes: the services terminated so far are a prefix of the list.
C7_TerminationInInsertionOrder == IsPrefix(termOrder, running_processes)

C7_Witness ==
    /\ Len(running_processes) = 3
    /\ termOrder = <<"ml_api", "chatbot_backend">>

\* C8: when a pass of cleanup() reaches its end, proc.terminate() has been
\* called on every entry of running_processes, whatever was raised or timed
\* out for the entries before it, and every entry whose child is still
\* running has had proc.kill() called on it.
C8_EveryEntryHandled ==
    (hstack # <<>> /\ Top.hpc = "exit") =>
        \A k \in 1..Len(running_processes) :
            /\ InSeq(running_processes[k], termOrder)
            /\ procState[running_processes[k]] = "running" =>
                   running_processes[k] \in killCalled

C8_Witness ==
    /\ hstack # <<>>
    /\ Top.hpc = "exit"
    /\ Len(running_processes) = 3
    /\ running_processes[1] \in killCalled
    /\ procState[running_processes[1]] = "running"
    /\ termSent[running_processes[3]] = 1

\* C9: wait_for_service returns True exactly when one of its probes found
\* the port open, every probe is made before the deadline, it returns False
\* only once the deadline has elapsed, and it always returns, at most one
\* poll interval after the deadline.
C9_WaitContract ==
    /\ [] /\ \A k \in 1..Len(wProbes) : wProbes[k].at < wTimeout
          /\ wElapsed <= wTimeout + 1
          /\ wpc = "done" =>
                 /\ wResult = "True" <=> (\E k \in 1..Len(wProbes) : wProbes[k].open)
                 /\ wResult = "False" <=> ~(\E k \in 1..Len(wProbes) : wProbes[k].open)
                 /\ wResult = "False" => wElapsed >= wTimeout
    /\ <>(wpc = "done")

C9_Witness ==
    /\ wpc = "done"
    /\ wResult = "True"
    /\ Len(wProbes) >= 3
    /\ ~wProbes[1].open

\* C10: a pass of cleanup() over an empty running_processes requests no
\* termination and no kill and ends the program with exit code 0.
C10_EmptyShutdownExits ==
    [][(Len(hstack) = 1 /\ Top.hpc = "exit" /\ running_processes = <<>>
          /\ hstack' = <<>>)
        => (pc' = "exited" /\ exitCode' = 0 /\ termOrder' = <<>>
              /\ killCalled' = {})]_vars

\* C11: start_service is called for the services in the order of SERVICES,
\* each at most once; the Ollama bootstrap (its checks and its spawn) is over
\* before the first call, and the status summary comes after the call of
\* every service the flags leave in, with no call after it.
C11_FixedStartupOrder ==
    /\ [] /\ IsPrefix(attempts, SERVICES)
          /\ attempts # <<>> => (no_ollama \/ checks # <<>>)
          /\ allOk # "unset" => \A s \in Wanted : InSeq(s, attempts)
    /\ [][/\ attempts # <<>> => (checks' = checks /\ ollamaTries' = ollamaTries)
          /\ allOk # "unset" => attempts' = attempts]_vars

C11_Witness ==
    /\ attempts = SERVICES
    /\ allOk # "unset"
    /\ ollamaTries = 1

\* C12: with --no-ollama neither check_ollama() nor start_ollama() is ever
\* called and no runtime is spawned, the services the flags leave in are
\* each launched once, and the status summary still probes port 11434.
C12_NoOllamaSkipsBootstrap ==
    no_ollama =>
        /\ checks = <<>>
        /\ ollamaTries = 0
        /\ ollamaSpawns = 0
        /\ ollamaResult = "none"
        /\ allOk # "unset" =>
               /\ InSeq(OllamaPort, summaryPorts)
               /\ \A s \in ServiceKeys :
                      Count(s, attempts) = IF s \in Wanted THEN 1 ELSE 0

C12_Witness ==
    /\ no_ollama
    /\ pc = "idle"
    /\ attempts = SERVICES
    /\ summaryPorts = <<3002, 3001, 11434, 5173>>

\* C13: with --no-frontend start_service is never called for the frontend,
\* no frontend process exists or is tracked, and the ML API and the chatbot
\* backend are launched, in that order, before the summary.
C13_NoFrontendSkipsFrontend ==
    no_frontend =>
        /\ procState["frontend"] = "none"
        /\ ~InSeq("frontend", running_processes)
        /\ ~InSeq("frontend", attempts)
        /\ allOk # "unset" => attempts = <<"ml_api", "chatbot_backend">>

C13_Witness ==
    /\ no_frontend
    /\ pc = "idle"
    /\ running_processes = <<"ml_api", "chatbot_backend">>

\* main() is past the Ollama bootstrap
BootDone == pc = "launch" \/ attempts # <<>>

\* C14: start_ollama() spawns the runtime at most once and only after the
\* check of main() returned False; a successful spawn is followed by exactly
\* one re-check, which decides the result; a failed spawn or a failed
\* re-check gives False, the program goes on and still launches the services.
C14_BootstrapSpawnsOnce ==
    /\ ollamaTries <= 1
    /\ ollamaSpawns <= ollamaTries
    /\ ollamaTries = 1 => (checks # <<>> /\ ~checks[1])
    /\ Len(checks) <= 2
    /\ Len(checks) = 2 => ollamaSpawns = 1
    /\ (BootDone /\ ~no_ollama) =>
          /\ checks # <<>>
          /\ checks[1] => (ollamaTries = 0 /\ ollamaResult = "none")
          /\ ~checks[1] => ollamaTries = 1
          /\ ollamaSpawns = 1 =>
                 /\ Len(checks) = 2
                 /\ ollamaResult = IF checks[2] THEN "True" ELSE "False"
          /\ (ollamaTries = 1 /\ ollamaSpawns = 0) =>
                 (Len(checks) = 1 /\ ollamaResult = "False")
    /\ (ollamaResult = "False" /\ sigCount = 0) => (pc # "exited" /\ exitCode = -1)
    /\ (ollamaResult = "False" /\ sigCount = 0 /\ allOk # "unset") =>
          \A s \in Wanted : InSeq(s, attempts)

C14_Witness ==
    /\ sigCount = 0
    /\ ollamaSpawns = 1
    /\ ollamaResult = "False"
    /\ allOk # "unset"
    /\ attempts = SERVICES

\* C15: without a signal the program never exits, and after the status
\* summary, whatever it reports, it stays in the idle loop; the only exit is
\* the one of cleanup(), with status 0.
C15_RunsUntilInterrupted ==
    /\ sigCount = 0 => (pc # "exited" /\ exitCode = -1)
    /\ (sigCount = 0 /\ allOk # "unset") => pc \in {"idle", "idle_sleep"}
    /\ pc = "exited" => (exitCode = 0 /\ cleanupDone)
    /\ pc # "exited" => exitCode = -1

C15_Witness ==
    /\ sigCount = 0
    /\ pc = "idle_sleep"
    /\ allOk = "False"
    /\ running_processes = <<>>

\* the lifecycle phase of the coordinator: Initializing until the handlers are
\* installed, Starting until the status summary is printed, Running in the
\* idle loop, ShuttingDown while cleanup() runs, Terminated once exited
Phase ==
    IF pc = "exited" THEN "Terminated"
    ELSE IF hstack # <<>> THEN "ShuttingDown"
    ELSE IF pc = "init" THEN "Initializing"
    ELSE IF pc \in {"idle", "idle_sleep"} THEN "Running"
    ELSE "Starting"

PhaseRank ==
    CASE Phase = "Initializing" -> 0
      [] Phase = "Starting" -> 1
      [] Phase = "Running" -> 2
      [] Phase = "ShuttingDown" -> 3
      [] Phase = "Terminated" -> 4

\* C16: the phase only moves forward along Initializing, Starting, Running,
\* ShuttingDown, Terminated: once cleanup() has been entered the coordinator
\* never goes back to Starting or Running.
C16_PhaseOnlyAdvances == [][PhaseRank' >= PhaseRank]_vars

\* the position of a service in SERVICES
ServiceIndex(s) == CHOOSE k \in 1..Len(SERVICES) : SERVICES[k] = s

\* C17: running_processes holds only services of SERVICES whose process
\* start_service spawned, in launch order and each at most once; a
\* start_service call that returned None leaves no entry.
C17_TrackedAreSpawned ==
    /\ \A k \in 1..Len(running_processes) :
          /\ running_processes[k] \in ServiceKeys
          /\ procState[running_processes[k]] # "none"
          /\ InSeq(running_processes[k], attempts)
    /\ \A j, k \in 1..Len(running_processes) :
          j < k => ServiceIndex(running_processes[j])
                     < ServiceIndex(running_processes[k])
    /\ call.result = "None" => ~InSeq(call.key, running_processes)

C17_Witness ==
    /\ running_processes = <<"ml_api", "frontend">>
    /\ procState["chatbot_backend"] = "none"
    /\ pc = "settle"

\* main() has finished the launch of SERVICES[k] and not exited in it
PastLaunch(k) ==
    \/ Len(attempts) > k
    \/ /\ Len(attempts) = k
       /\ pc \in {"launch", "frontend_gate", "settle", "summary", "idle",
                  "idle_sleep"}

\* C18 as stated: the launch of the ML API and of the chatbot backend is
\* followed by the settle delay whatever its outcome.
C18_SettleAfterEveryAttempt ==
    \A k \in {1, 2} : PastLaunch(k) => SERVICES[k] \in settled

\* C18 as amended: the launch of the ML API and of the chatbot backend is
\* followed by the settle delay exactly when it spawned a process; a skipped
\* or failed launch is followed by no delay, and the frontend by none.
C18_SettleOnlyAfterSpawn ==
    /\ \A k \in {1, 2} :
          PastLaunch(k) =>
              (SERVICES[k] \in settled <=> procState[SERVICES[k]] # "none")
    /\ "frontend" \notin settled
    /\ \A s \in settled : InSeq(s, running_processes)

C18_Witness ==
    /\ pc = "frontend_gate"
    /\ hstack = <<>>
    /\ settled = {"ml_api"}
    /\ procState["chatbot_backend"] = "none"

\* C19: once a signal has been handled, nothing more is spawned and nothing
\* is appended to running_processes.
C19_NoSpawnAfterCleanupStarts ==
    [][sigCount > 0 =>
          /\ running_processes' = running_processes
          /\ ollamaSpawns' = ollamaSpawns
          /\ \A s \in ServiceKeys :
                 procState[s] = "none" => procState'[s] = "none"]_vars

\* C20: the handle of the runtime spawned by start_ollama() is never in
\* running_processes, and cleanup() calls terminate() and kill() only on
\* entries of running_processes, which are services start_service spawned.
C20_RuntimeNeverTracked ==
    /\ \A k \in 1..Len(running_processes) : running_processes[k] \in ServiceKeys
    /\ \A k \in 1..Len(termOrder) :
          /\ termOrder[k] \in ServiceKeys
          /\ InSeq(termOrder[k], running_processes)
    /\ \A s \in killCalled : s \in ServiceKeys /\ InSeq(s, running_processes)
    /\ Len(running_processes)
         <= Cardinality({s \in ServiceKeys : procState[s] # "none"})

C20_Witness ==
    /\ ollamaSpawns = 1
    /\ pc = "exited"
    /\ Len(termOrder) = 3
    /\ killCalled # {}

\* C21: cleanup() never removes or reorders an entry of running_processes:
\* the list changes only by an append made in main(), never while cleanup()
\* runs, and an entry on which terminate() or kill() was called stays in it.
C21_CleanupKeepsList ==
    [][/\ IsPrefix(running_processes, running_processes')
       /\ Len(running_processes') <= Len(running_processes) + 1
       /\ running_processes' # running_processes =>
              (hstack = <<>> /\ pc = "svc_spawned")
       /\ \A s \in ServiceKeys :
              (InSeq(s, termOrder') \/ s \in killCalled') =>
                  InSeq(s, running_processes')]_vars

C21_Witness ==
    /\ pc = "exited"
    /\ running_processes = SERVICES
    /\ killCalled # {}
    /\ \A s \in ServiceKeys : procState[s] = "exited"

\* the feature column named after each variety, as listed in FEATURES
VarietyColumn ==
    [Button |-> "mushroom_variety_Button",
     Oyster |-> "mushroom_variety_Oyster",
     Reishi |-> "mushroom_variety_Reishi",
     Shiitake |-> "mushroom_variety_Shiitake"]
    @@ ("Lions Mane" :> "mushroom_variety_Lions Mane")

\* the variety columns of a feature dict that are set to 1
HotColumns(f) ==
    {c \in DOMAIN f : \E v \in DOMAIN VarietyColumn : c = VarietyColumn[v]
                                                      /\ f[c] = 1}

\* C22: the dict prepare_features returns has exactly the eleven keys of
\* FEATURES; for a species among the five varieties the column named after
\* it is 1 and the four other variety columns are 0; for a body without
\* "species" the Oyster column is the one set.
C22_OneHotSpecies ==
    ppc = "returned" =>
        /\ DOMAIN features = {FEATURES[k] : k \in 1..Len(FEATURES)}
        /\ Cardinality(DOMAIN features) = 11
        /\ \A v \in DOMAIN VarietyColumn : features[VarietyColumn[v]] \in {0, 1}
        /\ ("species" \in DOMAIN data /\ data["species"] \in DOMAIN VarietyColumn) =>
               HotColumns(features) = {VarietyColumn[data["species"]]}
        /\ "species" \notin DOMAIN data =>
               HotColumns(features) = {"mushroom_variety_Oyster"}

C22_Witness ==
    /\ ppc = "returned"
    /\ "species" \in DOMAIN data
    /\ data["species"] = "Lions Mane"
    /\ "light_lux" \notin DOMAIN data
    /\ features["mushroom_variety_Lions Mane"] = 1
    /\ features["mushroom_variety_Oyster"] = 0

====
